---- MODULE Spec2Model ----
(***************************************************************************)
(* A model of pings.py: the probe-and-aggregate cycle (ping_ips), the      *)
(* notification step (generate_report / send_email) and the scheduler loop *)
(* of __main__.                                                            *)
(*                                                                         *)
(* Time is a wall clock counted in ticks.  The program reads it only with  *)
(* datetime.now(); it advances while the program is blocked in ping(), in  *)
(* the SMTP conversation or in time.sleep().  Latencies are counted in     *)
(* units of 0.0001 s, the last digit the report prints.                    *)
(***************************************************************************)
EXTENDS Integers, Sequences, FiniteSets, TLC

\* ---------------------------------------------------------------- bounds
\* Largest registry (ips.json) explored.
MaxHosts == 2
\* Largest ping_count explored (ping_ips takes it as a parameter).
MaxPingCount == 2
\* The clock stops advancing here.
MaxClock == 18
\* Most ticks one blocking call may take beyond its minimum.
MaxWait == 2
\* Clock resolution: strftime("%S") drops what is below one second.
TicksPerSecond == 2
\* Scale of the scheduler's unit (an hour), in seconds.
SecondsPerHour == 1

\* ------------------------------------------------------ program constants
\* schedule.every(3).hours
IntervalHours == 3
\* time.sleep(1)
SleepSeconds == 1

Interval == IntervalHours * SecondsPerHour * TicksPerSecond

\* Round-trip times ping() may report, in units of 0.0001 s.
Latencies == {1, 2}

REPORT_RECIPIENT_EMAIL == "report"
ERROR_RECIPIENT_EMAIL == "error"

\* ------------------------------------------------------------ the registry
Target(i) == [name |-> <<"name", i>>, ip |-> <<"ip", i>>]

\* The registries json.load may yield: every list of at most MaxHosts targets.
Registries == {[i \in 1..n |-> Target(i)] : n \in 0..MaxHosts}

\* ------------------------------------------------------------------- ping
\* What ping(ip) returns when it returns: a delay, None on a timeout, or
\* False when the host is unknown or the destination is unreachable.
None == [kind |-> "None", val |-> 0]
False == [kind |-> "False", val |-> 0]
Delay(v) == [kind |-> "delay", val |-> v]
PingReturns == {None, False} \cup {Delay(v) : v \in Latencies}

\* `response_time is not None`
IsNotNone(response_time) == response_time.kind # "None"

\* Variant: the flag is cleared by a delay only, the append is as before.
ClearFlagOnDelayOnly(flag, response_time) ==
    IF response_time.kind = "delay" THEN FALSE ELSE flag

\* all_unreachable after one returned attempt: cleared with the append.
FlagAfter(flag, response_time) ==
    IF IsNotNone(response_time) THEN FALSE ELSE flag

\* latencies.append(response_time) under the same condition.
LatenciesAfter(lats, response_time) ==
    IF IsNotNone(response_time) THEN Append(lats, response_time) ELSE lats

\* Variant: the list is created once, before the loop over the registry.
KeepLatencies(lats) == lats

\* `latencies = []` at the head of every registry entry.
FreshLatencies(lats) == <<>>

\* Variant: the except clause goes on to the next registry entry.
ExceptSkipsRow == "host"

\* Where the except clause of a host's try leaves control: at the row.
ExceptTarget == "row"

\* ------------------------------------------------------------ aggregation
RECURSIVE Sum(_)
\* sum(latencies); False counts as 0, as in Python.
Sum(lats) == IF lats = <<>> THEN 0 ELSE Head(lats).val + Sum(Tail(lats))

\* f"{sum / n:.4f}": the multiples of 0.0001 nearest to sum / n.  On an exact
\* decimal tie the binary value of the float decides, so both are possible.
Format4(sum, n) ==
    LET q == sum \div n
        r == sum % n
    IN  IF 2 * r < n THEN {<<"f4", q>>}
        ELSE IF 2 * r > n THEN {<<"f4", q + 1>>}
        ELSE {<<"f4", q>>, <<"f4", q + 1>>}

Unreachable == <<"Unreachable">>

\* The third column of a host's row.
AverageColumn(lats) ==
    IF lats # <<>> THEN Format4(Sum(lats), Len(lats)) ELSE {Unreachable}

\* datetime.now().strftime("%Y-%m-%d %H:%M:%S"): whole seconds.
strftime(t) == t \div TicksPerSecond

HeaderRow == <<"Name", "IP Address", "Average Response Time (s)", "Time">>

\* ----------------------------------------------------------- notification
\* Variant: the flag is ignored.
AlwaysReportRecipient(flag) == REPORT_RECIPIENT_EMAIL

\* generate_report's choice of recipient.
Recipient(flag) ==
    IF flag THEN ERROR_RECIPIENT_EMAIL ELSE REPORT_RECIPIENT_EMAIL

VARIABLES
    ip_addresses,     \* the registry, loaded once
    ping_count,       \* attempts per host
    pc,               \* where the process is
    caller,           \* who called generate_report: "main" or "schedule"
    now,              \* the wall clock, in ticks
    next_run,         \* the scheduled job's next_run
    running,          \* activations of generate_report in progress
    idx,              \* index of the registry entry being handled
    attempt,          \* ping calls issued for that entry
    latencies,        \* ping_ips' latencies list
    all_unreachable,  \* ping_ips' flag, then generate_report's local
    file,             \* rows of the report file of this cycle
    responses,        \* what ping returned for the current entry (observer)
    raised,           \* ping raised for the current entry (observer)
    errors,           \* entries of this cycle whose probing raised (observer)
    sent,             \* send_email calls of this cycle, by recipient
    prev,             \* recipient of the previous cycle, or "none"
    failure           \* last collaborator failure: "none", "sink",
                      \* "attachment" or "smtp"

vars == <<ip_addresses, ping_count, pc, caller, now, next_run, running, idx,
          attempt, latencies, all_unreachable, file, responses, raised,
          errors, sent, prev, failure>>

config == <<ip_addresses, ping_count>>
probe == <<idx, attempt, latencies, all_unreachable, file, responses, raised,
           errors>>

Init ==
    /\ ip_addresses \in Registries
    /\ ping_count \in 0..MaxPingCount
    /\ pc = "start"
    /\ caller = "main"
    /\ now = 0
    /\ next_run = Interval
    /\ running = 0
    /\ idx = 0
    /\ attempt = 0
    /\ latencies = <<>>
    /\ all_unreachable = TRUE
    /\ file = <<>>
    /\ responses = <<>>
    /\ raised = FALSE
    /\ errors = {}
    /\ sent = <<>>
    /\ prev = "none"
    /\ failure = "none"

\* The clock after a blocking call that takes at least `least` ticks.
Elapse(least) ==
    \E d \in least..(least + MaxWait) :
        /\ now + d <= MaxClock
        /\ now' = now + d

\* A call of generate_report by `who`.
Call(who) ==
    /\ caller' = who
    /\ running' = running + 1
    /\ pc' = "open"
    /\ sent' = <<>>
    /\ prev' = IF sent = <<>> THEN prev ELSE sent[Len(sent)]
    /\ UNCHANGED <<config, now, next_run, probe, failure>>

\* __main__: generate_report() once at startup.
Startup ==
    /\ pc = "start"
    /\ Call("main")

\* ping_ips: makedirs, all_unreachable = True, open the file, the header row.
OpenReport ==
    /\ pc = "open"
    /\ pc' = "host"
    /\ all_unreachable' = TRUE
    /\ file' = <<HeaderRow>>
    /\ idx' = 0
    /\ errors' = {}
    /\ UNCHANGED <<config, caller, now, next_run, running, attempt, latencies,
                   responses, raised, sent, prev, failure>>

\* makedirs or open raises OSError: nothing catches it up to the top level.
OpenReportFails ==
    /\ pc = "open"
    /\ pc' = "crashed"
    /\ failure' = "sink"
    /\ UNCHANGED <<config, caller, now, next_run, running, probe, sent, prev>>

\* for entry in ips: the next entry, with a fresh latencies list.
NextHost ==
    /\ pc = "host"
    /\ idx < Len(ip_addresses)
    /\ idx' = idx + 1
    /\ latencies' = FreshLatencies(latencies)
    /\ attempt' = 0
    /\ responses' = <<>>
    /\ raised' = FALSE
    /\ pc' = "ping"
    /\ UNCHANGED <<config, caller, now, next_run, running, all_unreachable,
                   file, errors, sent, prev, failure>>

\* One attempt of the inner loop in which ping returns.
Ping ==
    /\ pc = "ping"
    /\ attempt < ping_count
    /\ \E response_time \in PingReturns :
        /\ latencies' = LatenciesAfter(latencies, response_time)
        /\ all_unreachable' = FlagAfter(all_unreachable, response_time)
        /\ responses' = Append(responses, response_time)
    /\ attempt' = attempt + 1
    /\ Elapse(0)
    /\ UNCHANGED <<config, pc, caller, next_run, running, idx, file, raised,
                   errors, sent, prev, failure>>

\* One attempt in which ping raises: the except clause around the whole
\* inner loop logs it, and the loop is left.
PingRaises ==
    /\ pc = "ping"
    /\ attempt < ping_count
    /\ attempt' = attempt + 1
    /\ raised' = TRUE
    /\ errors' = errors \cup {idx}
    /\ pc' = ExceptTarget
    /\ Elapse(0)
    /\ UNCHANGED <<config, caller, next_run, running, idx, latencies,
                   all_unreachable, file, responses, sent, prev, failure>>

\* range(ping_count) is exhausted.
PingsDone ==
    /\ pc = "ping"
    /\ attempt >= ping_count
    /\ pc' = "row"
    /\ UNCHANGED <<config, caller, now, next_run, running, probe, sent, prev,
                   failure>>

\* current_time, then the host's row.
WriteRow ==
    /\ pc = "row"
    /\ \E avg \in AverageColumn(latencies) :
        file' = Append(file, <<ip_addresses[idx].name, ip_addresses[idx].ip,
                               avg, strftime(now)>>)
    /\ pc' = "host"
    /\ UNCHANGED <<config, caller, now, next_run, running, idx, attempt,
                   latencies, all_unreachable, responses, raised, errors,
                   sent, prev, failure>>

\* writer.writerow raises OSError.
WriteRowFails ==
    /\ pc = "row"
    /\ pc' = "crashed"
    /\ failure' = "sink"
    /\ UNCHANGED <<config, caller, now, next_run, running, probe, sent, prev>>

\* The loop over ips ends, ping_ips returns its flag and generate_report
\* calls send_email for the recipient the flag selects.
ReturnAndNotify ==
    /\ pc = "host"
    /\ idx >= Len(ip_addresses)
    /\ sent' = Append(sent, Recipient(all_unreachable))
    /\ pc' = "send"
    /\ UNCHANGED <<config, caller, now, next_run, running, probe, prev,
                   failure>>

\* generate_report returns to its caller; the scheduler then sets the job's
\* next run from the clock.  The locals of ping_ips are gone, and the program
\* never reads the cycle's file again.
Return(outcome) ==
    /\ failure' = outcome
    /\ running' = running - 1
    /\ pc' = IF caller = "main" THEN "loop" ELSE "sleep"
    /\ next_run' = IF caller = "main" THEN next_run ELSE now' + Interval
    /\ idx' = 0
    /\ attempt' = 0
    /\ latencies' = <<>>
    /\ file' = <<>>
    /\ responses' = <<>>
    /\ raised' = FALSE
    /\ errors' = {}
    /\ UNCHANGED <<config, caller, all_unreachable, sent, prev>>

\* send_email: the attachment is read and the message is sent.
SendEmail ==
    /\ pc = "send"
    /\ Elapse(0)
    /\ Return(failure)

\* send_email: the SMTP block raises; the except clause logs it.
SendEmailSmtpFails ==
    /\ pc = "send"
    /\ Elapse(0)
    /\ Return("smtp")

\* send_email: open(attachment_path) raises before the try block.
SendEmailAttachmentFails ==
    /\ pc = "send"
    /\ pc' = "crashed"
    /\ failure' = "attachment"
    /\ UNCHANGED <<config, caller, now, next_run, running, probe, sent, prev>>

\* Variant: the job is started by a timer of its own, whatever the main
\* thread is doing.
TimerThreadReady == pc # "crashed" /\ pc # "start"

\* The job can start only while the main thread is in schedule.run_pending().
SchedulerReady == pc = "loop"

\* schedule.run_pending(): the job is due and runs in the calling thread.
RunPending ==
    /\ SchedulerReady
    /\ now >= next_run
    /\ Call("schedule")

\* schedule.run_pending(): nothing is due.
NothingPending ==
    /\ pc = "loop"
    /\ now < next_run
    /\ pc' = "sleep"
    /\ UNCHANGED <<config, caller, now, next_run, running, probe, sent, prev,
                   failure>>

\* time.sleep(1)
Sleep ==
    /\ pc = "sleep"
    /\ Elapse(SleepSeconds * TicksPerSecond)
    /\ pc' = "loop"
    /\ UNCHANGED <<config, caller, next_run, running, probe, sent, prev,
                   failure>>

Next ==
    \/ Startup
    \/ OpenReport
    \/ OpenReportFails
    \/ NextHost
    \/ Ping
    \/ PingRaises
    \/ PingsDone
    \/ WriteRow
    \/ WriteRowFails
    \/ ReturnAndNotify
    \/ SendEmail
    \/ SendEmailSmtpFails
    \/ SendEmailAttachmentFails
    \/ RunPending
    \/ NothingPending
    \/ Sleep

Spec == Init /\ [][Next]_vars

\* ------------------------------------------------------------- properties
\* The process is inside a call of generate_report.
InCycle == pc \in {"open", "host", "ping", "row", "send"}

\* The row of the entry handled last is in the file, and the observers still
\* describe that entry.
RowWritten == pc = "host" /\ idx >= 1 /\ Len(file) = idx + 1

\* ping_ips has returned and the cycle's file is complete.
Returned == pc = "send"

IsDelay(r) == r.kind = "delay"
Successes(rs) == SelectSeq(rs, IsDelay)
Returned_NotNone(rs) == SelectSeq(rs, IsNotNone)

\* C1: when the probing of a host ends, exactly ping_count attempts have been
\* issued for it, whether or not one of them raised.
C1_ExactlyPingCountAttempts == pc = "row" => attempt = ping_count

\* C2: with an empty registry the cycle is not all-unreachable and nothing is
\* sent to the error recipient.
C2_EmptyRegistryNotAllUnreachable ==
    (Returned /\ ip_addresses = <<>>) =>
        (~all_unreachable /\ sent # <<ERROR_RECIPIENT_EMAIL>>)

\* C3: for a non-empty registry the value ping_ips returns is true exactly
\* when every row written in the cycle is "Unreachable".
C3_FlagIffEveryRowUnreachable ==
    (Returned /\ ip_addresses # <<>>) =>
        (all_unreachable <=> \A i \in 2..Len(file) : file[i][3] = Unreachable)

\* C3 witness: a returned cycle over two hosts, one row "Unreachable" and the
\* other a latency, with the flag false.
C3_Witness ==
    /\ Returned
    /\ Len(ip_addresses) = 2
    /\ file[2][3] = Unreachable
    /\ file[3][3] # Unreachable
    /\ ~all_unreachable

\* C4: a host's row is "Unreachable" exactly when it had no Success attempt;
\* otherwise the row is the average of the Success latencies alone, and a
\* host without a Success does not clear the all-unreachable flag.
C4_RowFromSuccessesOnly ==
    RowWritten =>
        LET succ == Successes(responses)
            avg == file[idx + 1][3]
        IN  /\ avg = Unreachable <=> succ = <<>>
            /\ succ # <<>> => avg \in Format4(Sum(succ), Len(succ))
            /\ (idx = 1 /\ succ = <<>>) => all_unreachable

\* C5: an error raised while probing one host stays with that host: it never
\* ends the process, every host that did not raise itself gets all its
\* attempts, and every host's row is made of its own name, address and
\* returned values only.
C5_CrossHostIsolation ==
    /\ pc = "crashed" => failure \in {"sink", "attachment"}
    /\ RowWritten =>
        /\ ~raised => attempt = ping_count
        /\ file[idx + 1][1] = ip_addresses[idx].name
        /\ file[idx + 1][2] = ip_addresses[idx].ip
        /\ file[idx + 1][3] \in AverageColumn(Returned_NotNone(responses))

\* C5 witness: the first host's probing raised, and the second host has had
\* both its attempts, one of them a delay, and its row.
C5_Witness ==
    /\ RowWritten
    /\ idx = 2
    /\ errors = {1}
    /\ ~raised
    /\ ping_count = 2
    /\ attempt = 2
    /\ Successes(responses) # <<>>

\* C6: when ping_ips has returned, the file holds the header and one row per
\* registry entry, row i for entry i.
C6_OneRowPerEntryInOrder ==
    Returned =>
        /\ Len(file) = Len(ip_addresses) + 1
        /\ \A i \in 1..Len(ip_addresses) :
            /\ file[i + 1][1] = ip_addresses[i].name
            /\ file[i + 1][2] = ip_addresses[i].ip

\* C6 witness: a returned cycle over two hosts in which probing raised.
C6_Witness ==
    /\ Returned
    /\ Len(ip_addresses) = 2
    /\ errors # {}
    /\ Len(file) = 3

\* C7: a cycle issues no notification before ping_ips returns and exactly one
\* after it, to the error recipient when the flag is true and to the report
\* recipient otherwise, whatever the previous cycle sent.
C7_OneNotificationPerCycle ==
    /\ pc \in {"open", "host", "ping", "row"} => sent = <<>>
    /\ pc \in {"send", "loop", "sleep"} =>
        sent = <<IF all_unreachable THEN ERROR_RECIPIENT_EMAIL
                                   ELSE REPORT_RECIPIENT_EMAIL>>
    /\ Len(sent) <= 1

\* C7 witness: a scheduled cycle that notifies the error recipient right
\* after a cycle that did the same.
C7_Witness ==
    /\ pc = "send"
    /\ caller = "schedule"
    /\ prev = ERROR_RECIPIENT_EMAIL
    /\ sent = <<ERROR_RECIPIENT_EMAIL>>

\* C8: no failure of the report sink or of the notifier ends the process.
C8_LoopSurvivesCollaboratorFailure == failure # "none" => pc # "crashed"

\* C9: at most one call of generate_report is in progress at any time: a
\* cycle in progress is the only one.
C9_AtMostOneCycle ==
    /\ running <= 1
    /\ InCycle => running = 1

\* C9 witness: the startup cycle is still probing when the first scheduled
\* run falls due.
C9_Witness ==
    /\ pc = "ping"
    /\ caller = "main"
    /\ now >= next_run
    /\ running = 1

\* C10: all rows of one cycle carry the same timestamp.
C10_SingleTimestampPerCycle ==
    Returned =>
        \A i, j \in 2..Len(file) : file[i][4] = file[j][4]

====
